---- MODULE Spec2Model ----
(***************************************************************************)
(* OAuth 2.0 authorization-code strategies of dashport-strategies:         *)
(* GitHubStrategy (src/github/githubStrategy.ts), SpotifyStrategy and the  *)
(* template strategy class that follows it in                              *)
(* src/spotify/spotifyStrategy.ts.                                         *)
(*                                                                         *)
(* JavaScript strings are TLA+ strings (Len, SubSeq and \o work on them).  *)
(* A JavaScript value that may be undefined is a record [def, v].          *)
(* An options object is the sequence of its <<key, value>> entries in      *)
(* insertion order (what Object.entries returns).                          *)
(***************************************************************************)
EXTENDS Integers, Sequences, FiniteSets, TLC

VARIABLES instances, flow, served, codec, local, flows

vars == <<instances, flow, served, codec, local, flows>>

----------------------------------------------------------------------------
(* Bounds *)

\* number of router calls one behaviour makes
MaxRequests == 2

\* number of entries of the option objects passed to constructURI on its own
MaxEntries == 2

\* length of the strings passed to parseCode on its own
MaxCodeLen == 6

\* number of concurrent executions of router
MaxFlows == 2

----------------------------------------------------------------------------
(* JavaScript string primitives *)

Min(a, b) == IF a < b THEN a ELSE b

\* String.prototype.indexOf, 1-based; 0 when t does not occur in s
IndexOf(s, t) ==
  LET hits == {i \in 1..(Len(s) - Len(t) + 1) : SubSeq(s, i, i + Len(t) - 1) = t}
  IN IF hits = {} THEN 0 ELSE CHOOSE i \in hits : \A j \in hits : i <= j

\* String.prototype.startsWith
StartsWith(s, t) == Len(s) >= Len(t) /\ SubSeq(s, 1, Len(t)) = t

\* String.prototype.includes
Includes(s, t) == IndexOf(s, t) # 0

\* String.prototype.replace with a string pattern: the first occurrence only
ReplaceFirst(s, t, r) ==
  LET i == IndexOf(s, t)
  IN IF i = 0 THEN s
     ELSE SubSeq(s, 1, i - 1) \o r \o SubSeq(s, i + Len(t), Len(s))

\* String.prototype.slice(b, e) for 0 <= b, 0 <= e
Slice(s, b, e) == SubSeq(s, b + 1, Min(e, Len(s)))

\* String.prototype.split with a non-empty separator
RECURSIVE Split(_, _)
Split(s, sep) ==
  LET i == IndexOf(s, sep)
  IN IF i = 0 THEN <<s>>
     ELSE <<SubSeq(s, 1, i - 1)>> \o Split(SubSeq(s, i + Len(sep), Len(s)), sep)

\* a value that may be undefined
Undefined == [def |-> FALSE, v |-> ""]
Str(s) == [def |-> TRUE, v |-> s]

\* string coercion, as in value + '&' or `${value}`
ToStr(x) == IF x.def THEN x.v ELSE "undefined"

\* truthiness of a string-or-undefined value
Truthy(x) == x.def /\ x.v # ""

\* property read on an options object
OptGet(options, key) ==
  IF \E i \in 1..Len(options) : options[i][1] = key
  THEN Str(options[CHOOSE i \in 1..Len(options) : options[i][1] = key][2])
  ELSE Undefined

\* property read on a parsed JSON object (a function from field names)
Get(obj, key) == IF key \in DOMAIN obj THEN Str(obj[key]) ELSE Undefined

----------------------------------------------------------------------------
(* URI codec *)

\* constructURI(options, skip): skip is the set of skipped keys, {} when the
\* argument is absent
RECURSIVE AppendParams(_, _, _, _)
AppendParams(paramArray, skip, i, paramString) ==
  IF i > Len(paramArray) THEN paramString
  ELSE IF paramArray[i][1] \in skip
       THEN AppendParams(paramArray, skip, i + 1, paramString)
       ELSE AppendParams(paramArray, skip, i + 1,
                         (paramString \o (paramArray[i][1] \o "="))
                            \o (paramArray[i][2] \o "&"))

\* constructURI without the removal of the trailing "&"
constructURI_noStrip(options, skip) == AppendParams(options, skip, 1, "")

constructURI(options, skip) ==
  LET paramString == AppendParams(options, skip, 1, "")
  IN IF Len(paramString) > 0
        /\ SubSeq(paramString, Len(paramString), Len(paramString)) = "&"
     THEN SubSeq(paramString, 1, Len(paramString) - 1)
     ELSE paramString

\* the replacement table with an entry for the percent sign added at its end
decodedString_withPercent ==
  << <<"%24", "$">>, <<"%26", "&">>, <<"%2B", "+">>, <<"%2C", ",">>,
     <<"%2F", "/">>, <<"%3A", ":">>, <<"%3B", ";">>, <<"%3D", "=">>,
     <<"%3F", "?">>, <<"%40", "@">>, <<"%25", "%">> >>

\* the replacement table of parseCode, in Object.keys order
decodedString ==
  << <<"%24", "$">>, <<"%26", "&">>, <<"%2B", "+">>, <<"%2C", ",">>,
     <<"%2F", "/">>, <<"%3A", ":">>, <<"%3B", ";">>, <<"%3D", "=">>,
     <<"%3F", "?">>, <<"%40", "@">> >>

\* a single replace in place of the while loop
ReplaceWhile_once(encodedCode, from, to) == ReplaceFirst(encodedCode, from, to)

\* the inner while loop of parseCode for one table entry
RECURSIVE ReplaceWhile(_, _, _)
ReplaceWhile(encodedCode, from, to) ==
  IF Includes(encodedCode, from)
  THEN ReplaceWhile(ReplaceFirst(encodedCode, from, to), from, to)
  ELSE encodedCode

RECURSIVE ParseFrom(_, _)
ParseFrom(encodedCode, i) ==
  IF i > Len(decodedString) THEN encodedCode
  ELSE ParseFrom(ReplaceWhile(encodedCode, decodedString[i][1], decodedString[i][2]),
                 i + 1)

parseCode(encodedCode) == ParseFrom(encodedCode, 1)

\* JSON.stringify of a string: quotes and backslashes are escaped
RECURSIVE JSONEscape(_)
JSONEscape(s) ==
  IF Len(s) = 0 THEN ""
  ELSE LET c == SubSeq(s, 1, 1)
           e == IF c = "\"" THEN "\\\"" ELSE IF c = "\\" THEN "\\\\" ELSE c
       IN e \o JSONEscape(SubSeq(s, 2, Len(s)))

\* JSON.stringify of an object whose values are all strings
RECURSIVE JSONMembers(_, _)
JSONMembers(entries, i) ==
  IF i > Len(entries) THEN ""
  ELSE (IF i > 1 THEN "," ELSE "")
       \o "\"" \o JSONEscape(entries[i][1]) \o "\":\""
       \o JSONEscape(entries[i][2]) \o "\""
       \o JSONMembers(entries, i + 1)

JSONStringify(entries) == "{" \o JSONMembers(entries, 1) \o "}"

----------------------------------------------------------------------------
(* Strategy instances *)

Kinds == {"github", "spotify", "template"}

\* the name field of each class; the template class keeps the name 'github'
NameOf(kind) == IF kind = "spotify" THEN "spotify" ELSE "github"

authURL(kind) ==
  IF kind = "spotify" THEN "https://accounts.spotify.com/authorize?"
  ELSE "https://github.com/login/oauth/authorize?"

tokenURL(kind) ==
  IF kind = "spotify" THEN "https://accounts.spotify.com/api/token?"
  ELSE "https://github.com/login/oauth/access_token?"

authDataURL(kind) ==
  IF kind = "spotify" THEN "https://api.spotify.com/v1/me?"
  ELSE "https://api.github.com/user?"

\* the condition under which each constructor throws
MissingRequired(kind, options) ==
  \/ ~Truthy(OptGet(options, "client_id"))
  \/ ~Truthy(OptGet(options, "redirect_uri"))
  \/ (kind = "spotify" /\ ~Truthy(OptGet(options, "state")))
  \/ ~Truthy(OptGet(options, "client_secret"))

\* the skip argument each constructor passes to constructURI
AuthorizeSkip(kind) == IF kind = "spotify" THEN {"client_secret"} ELSE {}

\* new XStrategy(options): constructed = FALSE when the constructor threw;
\* args is the argument the host passed
New(kind, options) ==
  IF MissingRequired(kind, options)
  THEN [constructed |-> FALSE, args |-> options, name |-> NameOf(kind),
        options |-> <<>>, uriFromParams |-> ""]
  ELSE [constructed |-> TRUE, args |-> options, name |-> NameOf(kind),
        options |-> options,
        uriFromParams |-> constructURI(options, AuthorizeSkip(kind))]

\* the option objects a host passes to the constructors
OptionChoices ==
  { << <<"client_id", "cid">>, <<"client_secret", "s3cr3t">>,
       <<"redirect_uri", "cb">>, <<"state", "st">> >>,
    << <<"client_id", "cid">>, <<"redirect_uri", "cb">>,
       <<"scope", "user">>, <<"client_secret", "s3cr3t">> >>,
    << <<"client_id", "cid">>, <<"client_secret", "">>,
       <<"redirect_uri", "cb">>, <<"state", "st">> >> }

----------------------------------------------------------------------------
(* Requests, provider responses and returned values *)

\* ctx.request.url.search of the inbound requests
Queries ==
  { "", "?code=abc%26123", "?code=a1&state=st", "?code", "?code=a=b",
    "?error=access_denied", "?code=a1&error=denied", "?codes=a1",
    "?state=st&code=a1", "?code=a1&state=zz" }

NoObj == [type |-> ""]

\* what fetch and .json() yield: the request fails ("netfail"), the body is
\* not JSON ("badjson"), the body is the JSON null ("null"), or it is a JSON
\* object ("object") whose fields are obj
TokenResponses ==
  { [kind |-> "netfail", status |-> 0, obj |-> NoObj],
    [kind |-> "badjson", status |-> 502, obj |-> NoObj],
    [kind |-> "null", status |-> 200, obj |-> NoObj],
    [kind |-> "object", status |-> 200,
     obj |-> [access_token |-> "tokA", token_type |-> "bearer", scope |-> "user"]],
    [kind |-> "object", status |-> 200, obj |-> [type |-> "oAuthException"]],
    [kind |-> "object", status |-> 200, obj |-> [error |-> "bad_verification_code"]],
    [kind |-> "object", status |-> 401, obj |-> [error |-> "invalid_client"]] }

ProfileResponses ==
  { [kind |-> "netfail", status |-> 0, obj |-> NoObj],
    [kind |-> "badjson", status |-> 502, obj |-> NoObj],
    [kind |-> "object", status |-> 200,
     obj |-> [id |-> "u1", login |-> "octo", name |-> "Cat", email |-> "o@x"]],
    [kind |-> "object", status |-> 200, obj |-> [login |-> "octo"]],
    [kind |-> "object", status |-> 401, obj |-> [message |-> "Bad credentials"]] }

\* the AuthData object of getAuthData before the profile request; for the
\* GitHub classes expires_in and refresh_token are not properties of tokenData
\* and emails = <<>> stands for a userInfo without an emails property
InitialAuthData(parsed) ==
  [tokenData |-> [access_token |-> Get(parsed, "access_token"),
                  token_type |-> Get(parsed, "token_type"),
                  scope |-> Get(parsed, "scope"),
                  expires_in |-> Get(parsed, "expires_in"),
                  refresh_token |-> Get(parsed, "refresh_token")],
   userInfo |-> [provider |-> Str(""), providerUserId |-> Str(""),
                 displayName |-> Undefined, familyName |-> Undefined,
                 emails |-> <<>>]]

NoAuthData == InitialAuthData(NoObj)

\* the values router resolves to, and "thrown" for a rejected promise
Pending == [type |-> "pending", message |-> "", authData |-> NoAuthData]
ReturnsUndefined == [type |-> "undefined", message |-> "", authData |-> NoAuthData]
ReturnsError(msg) == [type |-> "error", message |-> msg, authData |-> NoAuthData]
ReturnsAuthData(a) == [type |-> "authData", message |-> "", authData |-> a]
Throws(msg) == [type |-> "thrown", message |-> msg, authData |-> NoAuthData]

\* one execution of router: the request, the position of the async call
\* ("awaitToken" and "awaitProfile" are the two awaited fetches), the calls it
\* made on the host and on the providers, and the value it returned
IdleFlow ==
  [strategy |-> "github", search |-> "", pc |-> "idle", code |-> "",
   redirects |-> <<>>, tokenRequests |-> <<>>, tokenResponses |-> <<>>,
   profileRequests |-> <<>>, profileResponses |-> <<>>,
   authData |-> NoAuthData, console |-> <<>>, result |-> Pending]

----------------------------------------------------------------------------
(* The flow: router, authorize, getAuthToken, getAuthData *)

\* authorize: ctx.response.redirect(this.authURL + this.uriFromParams); the
\* promise resolves to what redirect returns, which is undefined
authorize(f, inst) ==
  [f EXCEPT !.redirects = Append(@, authURL(f.strategy) \o inst.uriFromParams),
            !.pc = "done",
            !.result = ReturnsUndefined]

\* the template class logs where the other two return an Error
HandlesErrors(kind) == kind # "template"

\* the request getAuthToken passes to fetch; basic is the string handed to
\* Base64.fromString for the Authorization header ("" when there is no header)
TokenRequest(kind, inst, code) ==
  IF kind = "spotify"
  THEN [url |-> tokenURL(kind), method |-> "POST",
        basic |-> ToStr(OptGet(inst.options, "client_id")) \o ":"
                    \o ToStr(OptGet(inst.options, "client_secret")),
        contentType |-> "application/x-www-form-urlencoded",
        body |-> constructURI(
                   << <<"grant_type", "authorization_code">>,
                      <<"code", code>>,
                      <<"redirect_uri", ToStr(OptGet(inst.options, "redirect_uri"))>> >>,
                   {})]
  ELSE [url |-> "https://github.com/login/oauth/access_token", method |-> "POST",
        basic |-> "",
        contentType |-> "application/json",
        body |-> JSONStringify(
                   << <<"client_id", ToStr(OptGet(inst.options, "client_id"))>>,
                      <<"client_secret", ToStr(OptGet(inst.options, "client_secret"))>>,
                      <<"redirect_uri", ToStr(OptGet(inst.options, "redirect_uri"))>>,
                      <<"code", code>> >>)]

\* getAuthToken that first compares the state parameter of the callback with
\* the configured one
getAuthToken_checksState(f, inst) ==
  LET OGURI == f.search
      expected == "state=" \o ToStr(OptGet(inst.options, "state"))
      URI1 == Split(OGURI, "=")
  IN IF ~Includes(OGURI, expected)
     THEN [f EXCEPT !.pc = "done",
                    !.result = ReturnsError("ERROR in getAuthToken: state mismatch")]
     ELSE IF Len(URI1) < 2
     THEN [f EXCEPT !.pc = "done", !.result = Throws("TypeError")]
     ELSE LET code == parseCode(Split(URI1[2], "&")[1])
          IN [f EXCEPT !.code = code,
                       !.tokenRequests = Append(@, TokenRequest(f.strategy, inst, code)),
                       !.pc = "awaitToken"]

\* getAuthToken up to its first await
getAuthToken(f, inst) ==
  LET OGURI == f.search
      hasError == Includes(OGURI, "error")
      g == IF hasError /\ ~HandlesErrors(f.strategy)
           THEN [f EXCEPT !.console = Append(@, "broke the code again")]
           ELSE f
      URI1 == Split(OGURI, "=")
  IN IF hasError /\ HandlesErrors(f.strategy)
     THEN [g EXCEPT !.pc = "done",
                    !.result = ReturnsError(
                      "ERROR in getAuthToken: Received an error from auth token code request.")]
     ELSE IF Len(URI1) < 2
     THEN \* URI1[1] is undefined and undefined.split throws outside any try
          [g EXCEPT !.pc = "done",
                    !.result = Throws("TypeError")]
     ELSE LET URI2 == Split(URI1[2], "&")
              code == parseCode(URI2[1])
          IN [g EXCEPT !.code = code,
                       !.tokenRequests = Append(@, TokenRequest(f.strategy, inst, code)),
                       !.pc = "awaitToken"]

\* router that answers a query it does not handle with an Error
router_rejectsUnknown(kind, inst, search) ==
  LET f == [IdleFlow EXCEPT !.strategy = kind, !.search = search]
  IN IF search = "" THEN authorize(f, inst)
     ELSE IF Slice(search, 1, 5) = "code" THEN getAuthToken(f, inst)
     ELSE [f EXCEPT !.pc = "done",
                    !.result = ReturnsError("ERROR in router: unhandled request")]

\* router with the test of the empty query string inverted
router_inverted(kind, inst, search) ==
  LET f == [IdleFlow EXCEPT !.strategy = kind, !.search = search]
  IN IF search # "" THEN authorize(f, inst)
     ELSE IF Slice(search, 1, 5) = "code" THEN getAuthToken(f, inst)
     ELSE [f EXCEPT !.pc = "done", !.result = ReturnsUndefined]

\* router up to its first await
router(kind, inst, search) ==
  LET f == [IdleFlow EXCEPT !.strategy = kind, !.search = search]
  IN IF search = "" THEN authorize(f, inst)
     ELSE IF Slice(search, 1, 5) = "code" THEN getAuthToken(f, inst)
     ELSE [f EXCEPT !.pc = "done", !.result = ReturnsUndefined]

\* the request getAuthData passes to fetch
ProfileRequest(kind, authData) ==
  IF kind = "spotify"
  THEN [url |-> authDataURL(kind) \o constructURI(
                  << <<"access_token", ToStr(authData.tokenData.access_token)>>,
                     <<"token_type", ToStr(authData.tokenData.token_type)>>,
                     <<"scope", ToStr(authData.tokenData.scope)>>,
                     <<"expires_in", ToStr(authData.tokenData.expires_in)>>,
                     <<"refresh_token", ToStr(authData.tokenData.refresh_token)>> >>,
                  {}),
        authorization |-> ""]
  ELSE [url |-> "https://api.github.com/user",
        authorization |-> "token " \o ToStr(authData.tokenData.access_token)]

\* getAuthData up to its await
getAuthData(f, parsed) ==
  LET authData == InitialAuthData(parsed)
  IN [f EXCEPT !.authData = authData,
               !.profileRequests = Append(@, ProfileRequest(f.strategy, authData)),
               !.pc = "awaitProfile"]

\* the catch block of getAuthToken
CatchToken(f, err) ==
  IF HandlesErrors(f.strategy)
  THEN [f EXCEPT !.pc = "done",
                 !.result = ReturnsError(
                   "ERROR in getAuthToken: Unable to obtain token - " \o err)]
  ELSE [f EXCEPT !.pc = "done", !.result = ReturnsUndefined]

\* getAuthToken after fetch settles with resp
AfterTokenFetch(f, resp) ==
  LET g == [f EXCEPT !.tokenResponses = Append(@, resp)]
  IN IF resp.kind = "netfail" THEN CatchToken(g, "TypeError: fetch failed")
     ELSE IF resp.kind = "badjson" THEN CatchToken(g, "SyntaxError")
     ELSE IF resp.kind = "null" THEN CatchToken(g, "TypeError")
     ELSE IF Get(resp.obj, "type") = Str("oAuthException")
     THEN IF HandlesErrors(f.strategy)
          THEN [g EXCEPT !.pc = "done",
                         !.result = ReturnsError(
                           "ERROR in getAuthToken: Token request threw OAuth exception.")]
          ELSE [g EXCEPT !.console = Append(@, "token request threw oauth exception"),
                         !.pc = "done",
                         !.result = ReturnsUndefined]
     ELSE getAuthData(g, resp.obj)

\* a catch block that repeats the profile request once before giving up
CatchProfile_retry(f, err) ==
  IF Len(f.profileRequests) < 2
  THEN [f EXCEPT !.profileRequests = Append(@, @[1]), !.pc = "awaitProfile"]
  ELSE [f EXCEPT !.pc = "done",
                 !.result = ReturnsError(
                   "ERROR in getAuthData: Unable to obtain auth data - " \o err)]

\* the catch block of getAuthData
CatchProfile(f, err) ==
  IF HandlesErrors(f.strategy)
  THEN [f EXCEPT !.pc = "done",
                 !.result = ReturnsError(
                   "ERROR in getAuthData: Unable to obtain auth data - " \o err)]
  ELSE [f EXCEPT !.console = Append(@, "3.4 L.252 getAuthData fetch error"),
                 !.pc = "done",
                 !.result = ReturnsUndefined]

\* userInfo with the user id read from the login field of the profile JSON
UserInfo_idFromLogin(kind, name, data) ==
  IF kind = "spotify"
  THEN [provider |-> Str(name), providerUserId |-> Get(data, "login"),
        displayName |-> Undefined, familyName |-> Undefined, emails |-> <<>>]
  ELSE [provider |-> Str(name), providerUserId |-> Get(data, "login"),
        displayName |-> Get(data, "login"), familyName |-> Get(data, "name"),
        emails |-> <<Get(data, "email")>>]

\* the userInfo getAuthData builds from the profile JSON
UserInfo(kind, name, data) ==
  IF kind = "spotify"
  THEN [provider |-> Str(name), providerUserId |-> Get(data, "id"),
        displayName |-> Undefined, familyName |-> Undefined, emails |-> <<>>]
  ELSE [provider |-> Str(name), providerUserId |-> Get(data, "id"),
        displayName |-> Get(data, "login"), familyName |-> Get(data, "name"),
        emails |-> <<Get(data, "email")>>]

\* getAuthData after fetch settles with resp
AfterProfileFetch(f, inst, resp) ==
  LET g == [f EXCEPT !.profileResponses = Append(@, resp)]
  IN IF resp.kind = "netfail" THEN CatchProfile(g, "TypeError: fetch failed")
     ELSE IF resp.kind = "badjson" THEN CatchProfile(g, "SyntaxError")
     ELSE IF resp.kind = "null" THEN CatchProfile(g, "TypeError")
     ELSE LET authData == [g.authData EXCEPT
                             !.userInfo = UserInfo(f.strategy, inst.name, resp.obj)]
          IN [g EXCEPT !.authData = authData,
                       !.pc = "done",
                       !.result = ReturnsAuthData(authData)]

----------------------------------------------------------------------------
(* State outside the single OAuth flow *)

\* a call of constructURI or parseCode on its own: the arguments and the
\* returned string
IdleCodec == [op |-> "idle", m |-> <<>>, skip |-> {}, x |-> "", out |-> ""]

\* what the injected authorize callback does: it resolves to a profile
\* ("profile"), resolves to an Error value ("errorValue") or throws ("throws")
NoOutcome == [kind |-> "none", id |-> "", message |-> ""]

\* one execution of LocalStrategy.router: the body it read, its calls of the
\* authorize callback, of response.redirect and of fetch, and the value it
\* returned: { userInfo } ("userInfo") or an Error ("error")
IdleLocal ==
  [pc |-> "idle", bodyReads |-> 0, body |-> Undefined, authorizeCalls |-> <<>>,
   outcome |-> NoOutcome, redirects |-> <<>>, fetches |-> <<>>,
   result |-> [type |-> "pending", userInfo |-> NoOutcome, message |-> ""]]

\* concurrent executions of router
IdleFlows == <<>>

----------------------------------------------------------------------------
(* The state machine *)

Init ==
  /\ \E cfg \in [Kinds -> OptionChoices] :
       instances = [k \in Kinds |-> New(k, cfg[k])]
  /\ flow = IdleFlow
  /\ served = 0
  /\ codec = IdleCodec
  /\ local = IdleLocal
  /\ flows = IdleFlows

\* router that appends the query of each request to the cached uriFromParams
Router_cachesQuery ==
  /\ flow.pc \in {"idle", "done"}
  /\ served < MaxRequests
  /\ \E kind \in Kinds, search \in Queries :
       /\ instances[kind].constructed
       /\ flow' = router(kind, instances[kind], search)
       /\ instances' = [instances EXCEPT ![kind].uriFromParams = @ \o search]
  /\ served' = served + 1
  /\ UNCHANGED <<codec, local, flows>>

\* the host passes a request to router of a constructed strategy
Router ==
  /\ flow.pc \in {"idle", "done"}
  /\ served < MaxRequests
  /\ \E kind \in Kinds, search \in Queries :
       /\ instances[kind].constructed
       /\ flow' = router(kind, instances[kind], search)
  /\ served' = served + 1
  /\ UNCHANGED <<instances, codec, local, flows>>

\* the token endpoint answers, or the request fails
TokenFetchReturns ==
  /\ flow.pc = "awaitToken"
  /\ \E resp \in TokenResponses :
       flow' = AfterTokenFetch(flow, resp)
  /\ UNCHANGED <<instances, served, codec, local, flows>>

\* the profile endpoint answers, or the request fails
ProfileFetchReturns ==
  /\ flow.pc = "awaitProfile"
  /\ \E resp \in ProfileResponses :
       flow' = AfterProfileFetch(flow, instances[flow.strategy], resp)
  /\ UNCHANGED <<instances, served, codec, local, flows>>

Next == Router \/ TokenFetchReturns \/ ProfileFetchReturns

Spec == Init /\ [][Next]_vars

----------------------------------------------------------------------------
(* How a provider reads the token request *)

\* the value of parameter key in an application/x-www-form-urlencoded body:
\* the body is split on "&" and each part on its first "="
FormParam(body, key) ==
  LET parts == Split(body, "&")
      hits == {i \in 1..Len(parts) :
                 StartsWith(parts[i], key \o "=")}
  IN IF hits = {} THEN Undefined
     ELSE LET i == CHOOSE i \in hits : \A j \in hits : i <= j
          IN Str(SubSeq(parts[i], Len(key) + 2, Len(parts[i])))

\* the JSON string literal that starts at position i of s, unescaped
RECURSIVE JSONReadString(_, _)
JSONReadString(s, i) ==
  IF i > Len(s) \/ SubSeq(s, i, i) = "\"" THEN ""
  ELSE IF SubSeq(s, i, i) = "\\" /\ i < Len(s)
       THEN SubSeq(s, i + 1, i + 1) \o JSONReadString(s, i + 2)
       ELSE SubSeq(s, i, i) \o JSONReadString(s, i + 1)

\* the value of the string member key of the JSON object text body
JSONField(body, key) ==
  LET tag == "\"" \o key \o "\":\""
      i == IndexOf(body, tag)
  IN IF i = 0 THEN Undefined ELSE Str(JSONReadString(body, i + Len(tag)))

\* the code the token endpoint receives
SentCode(kind, req) ==
  IF kind = "spotify" THEN FormParam(req.body, "code")
  ELSE JSONField(req.body, "code")

\* the text between the first "=" of search and the first following "&"
FirstValue(search) ==
  LET i == IndexOf(search, "=")
      rest == SubSeq(search, i + 1, Len(search))
      j == IndexOf(rest, "&")
  IN IF j = 0 THEN rest ELSE SubSeq(rest, 1, j - 1)

----------------------------------------------------------------------------
(* Properties *)

\* the instance that serves the current request
Instance == instances[flow.strategy]

Started == flow.pc # "idle"
Returned == flow.pc = "done"

\* C1: the redirect URL router emits on a request with no query string
\* contains neither the parameter name client_secret nor the configured secret.
C1_RedirectHidesSecret ==
  \A i \in 1..Len(flow.redirects) :
    /\ ~Includes(flow.redirects[i], "client_secret")
    /\ ~Includes(flow.redirects[i], ToStr(OptGet(Instance.options, "client_secret")))

\* C2: a request with an empty query string has returned as soon as router is
\* entered, with exactly one redirect and no token or profile request.
C2_EmptyQueryOnlyRedirects ==
  (Started /\ flow.search = "") =>
     /\ Returned
     /\ Len(flow.redirects) = 1
     /\ flow.redirects[1] = authURL(flow.strategy) \o Instance.uriFromParams
     /\ flow.tokenRequests = <<>>
     /\ flow.profileRequests = <<>>

C2_Witness ==
  /\ Returned
  /\ flow.search = ""
  /\ Len(flow.redirects) = 1
  /\ served = MaxRequests

\* C3: a request whose query string contains "error" makes no token request
\* and no profile request.
C3_ErrorQueryMakesNoRequest ==
  (Started /\ Includes(flow.search, "error")) =>
     /\ flow.tokenRequests = <<>>
     /\ flow.profileRequests = <<>>

\* C4: a request whose query string contains "error" ends with router
\* returning an error value.
C4_ErrorQueryReturnsError ==
  (Returned /\ Includes(flow.search, "error")) => flow.result.type = "error"

\* C5: for a query "?code=<c>" with optional "&"-joined parameters after it,
\* the code the token endpoint receives is parseCode(<c>), <c> being the text
\* between the first "=" and the first following "&".
C5_SentCodeIsDecoded ==
  \A i \in 1..Len(flow.tokenRequests) :
    StartsWith(flow.search, "?code=") =>
      SentCode(flow.strategy, flow.tokenRequests[i])
        = Str(parseCode(FirstValue(flow.search)))

\* C6: router never throws (its promise never rejects), and a flow that does
\* not end with AuthData or the redirect ends with a returned error value.
C6_RouterNeverThrows == flow.result.type # "thrown"

\* C7: router never returns an AuthData whose userInfo.providerUserId is
\* missing; a profile JSON without id gives an error value.
C7_AuthDataHasUserId ==
  flow.result.type = "authData" =>
    flow.result.authData.userInfo.providerUserId.def

\* a fetch response that carries an HTTP status outside 200..299
Non2xx(resp) == resp.kind # "netfail" /\ resp.status \notin 200..299

\* C8: after a non-2xx answer of the token endpoint the profile endpoint is
\* not requested and router returns an error value.
C8_Non2xxTokenFails ==
  (\E i \in 1..Len(flow.tokenResponses) : Non2xx(flow.tokenResponses[i])) =>
     /\ flow.profileRequests = <<>>
     /\ Returned
     /\ flow.result.type = "error"

\* a token fetch that fails, cannot be parsed, or reports an OAuth exception
TokenFailure(resp) ==
  \/ resp.kind \in {"netfail", "badjson"}
  \/ (resp.kind = "object" /\ Get(resp.obj, "type") = Str("oAuthException"))

\* C9: after a token fetch that fails at the network level, cannot be parsed
\* or carries type "oAuthException", the profile endpoint is not requested and
\* router returns an error value.
C9_TokenFailureReturnsError ==
  (\E i \in 1..Len(flow.tokenResponses) : TokenFailure(flow.tokenResponses[i])) =>
     /\ flow.profileRequests = <<>>
     /\ Returned
     /\ flow.result.type = "error"

\* C10: every AuthData router returns has a present access_token, the one the
\* token endpoint sent; a token payload without access_token gives an error.
C10_AuthDataHasAccessToken ==
  flow.result.type = "authData" =>
    /\ flow.result.authData.tokenData.access_token.def
    /\ Len(flow.tokenResponses) = 1
    /\ flow.result.authData.tokenData.access_token
         = Get(flow.tokenResponses[1].obj, "access_token")

\* C11: when the token payload carries access_token and the profile JSON
\* carries id, the returned AuthData has that id as userInfo.providerUserId,
\* the fixed name of the class as userInfo.provider and the token endpoint's
\* access_token as tokenData.access_token.
C11_SuccessfulFlowResult ==
  (/\ flow.result.type = "authData"
   /\ Get(flow.tokenResponses[1].obj, "access_token").def
   /\ Get(flow.profileResponses[1].obj, "id").def) =>
     /\ flow.result.authData.userInfo.providerUserId
          = Str(flow.profileResponses[1].obj.id)
     /\ flow.result.authData.userInfo.provider
          = Str(IF flow.strategy = "spotify" THEN "spotify" ELSE "github")
     /\ flow.result.authData.tokenData.access_token
          = Str(flow.tokenResponses[1].obj.access_token)

C11_Witness ==
  /\ flow.result.type = "authData"
  /\ flow.strategy = "spotify"
  /\ flow.result.authData.tokenData.access_token = Str("tokA")
  /\ flow.result.authData.userInfo.providerUserId = Str("u1")
  /\ flow.result.authData.userInfo.provider = Str("spotify")

\* C12: a constructor throws exactly when client_id, client_secret or
\* redirect_uri is missing or empty; in particular options with the three
\* mandatory fields and no state construct every strategy.
C12_ThrowsIffMandatoryMissing ==
  \A k \in Kinds :
    instances[k].constructed <=>
      /\ Truthy(OptGet(instances[k].args, "client_id"))
      /\ Truthy(OptGet(instances[k].args, "client_secret"))
      /\ Truthy(OptGet(instances[k].args, "redirect_uri"))

----------------------------------------------------------------------------
(* The URI codec on its own *)

CodecKeys == {"a", "b", "c"}
CodecValues == {"1", "", "x&"}

\* the option objects of at most n entries over CodecKeys and CodecValues
RECURSIVE Mappings(_)
Mappings(n) ==
  IF n = 0 THEN {<<>>}
  ELSE LET p == Mappings(n - 1)
       IN p \cup
          { Append(t[1], <<t[2], t[3]>>) :
              t \in {u \in p \X CodecKeys \X CodecValues :
                       \A i \in 1..Len(u[1]) : u[1][i][1] # u[2]} }

CodecAlphabet == {"%", "2", "4", "5", "6"}

\* the strings of at most n characters over CodecAlphabet
RECURSIVE EncodedStrings(_)
EncodedStrings(n) ==
  IF n = 0 THEN {""}
  ELSE LET p == EncodedStrings(n - 1)
       IN p \cup {x \o c : x \in p, c \in CodecAlphabet}

InitCodec ==
  /\ instances = [k \in Kinds |->
                    New(k, << <<"client_id", "cid">>, <<"client_secret", "s3cr3t">>,
                              <<"redirect_uri", "cb">>, <<"state", "st">> >>)]
  /\ flow = IdleFlow
  /\ served = 0
  /\ codec = IdleCodec
  /\ local = IdleLocal
  /\ flows = IdleFlows

\* constructURI(m, skip) is called
CallConstructURI ==
  /\ codec.op = "idle"
  /\ \E m \in Mappings(MaxEntries), skip \in SUBSET CodecKeys :
       codec' = [op |-> "constructURI", m |-> m, skip |-> skip, x |-> "",
                 out |-> constructURI(m, skip)]
  /\ UNCHANGED <<instances, flow, served, local, flows>>

\* parseCode(x) is called
CallParseCode ==
  /\ codec.op = "idle"
  /\ \E x \in EncodedStrings(MaxCodeLen) :
       codec' = [op |-> "parseCode", m |-> <<>>, skip |-> {}, x |-> x,
                 out |-> parseCode(x)]
  /\ UNCHANGED <<instances, flow, served, local, flows>>

NextCodec == CallConstructURI \/ CallParseCode

SpecCodec == InitCodec /\ [][NextCodec]_vars

\* the entries of m whose key is not in skip, each written key=value
RECURSIVE KeptPairs(_, _)
KeptPairs(m, skip) ==
  IF m = <<>> THEN <<>>
  ELSE (IF m[1][1] \in skip THEN <<>> ELSE <<m[1][1] \o "=" \o m[1][2]>>)
       \o KeptPairs(Tail(m), skip)

\* parts joined by single "&"
RECURSIVE JoinAmp(_)
JoinAmp(parts) ==
  IF parts = <<>> THEN ""
  ELSE IF Len(parts) = 1 THEN parts[1]
  ELSE parts[1] \o "&" \o JoinAmp(Tail(parts))

EndsWith(s, t) == Len(s) >= Len(t) /\ SubSeq(s, Len(s) - Len(t) + 1, Len(s)) = t

\* C13 as stated: constructURI(m, s) is the non-skipped entries as key=value
\* in insertion order joined by single "&", and it never begins or ends with
\* "&", also when a value ends in "&"; it is "" when nothing is kept.
C13_JoinedWithoutOuterAmp ==
  codec.op = "constructURI" =>
    /\ codec.out = JoinAmp(KeptPairs(codec.m, codec.skip))
    /\ ~StartsWith(codec.out, "&")
    /\ ~EndsWith(codec.out, "&")
    /\ (KeptPairs(codec.m, codec.skip) = <<>> => codec.out = "")

\* C13 amended: constructURI(m, s) is the non-skipped entries as key=value in
\* insertion order joined by single "&", "" when nothing is kept; it begins
\* with "&" only if the first kept key does and ends with "&" only if the last
\* kept value does.
C13_JoinedKeptPairs ==
  codec.op = "constructURI" =>
    LET kept == KeptPairs(codec.m, codec.skip)
    IN /\ codec.out = JoinAmp(kept)
       /\ (kept = <<>> => codec.out = "")
       /\ (StartsWith(codec.out, "&") =>
             kept # <<>> /\ StartsWith(kept[1], "&"))
       /\ (EndsWith(codec.out, "&") =>
             kept # <<>> /\ EndsWith(kept[Len(kept)], "&"))

C13_Witness ==
  /\ codec.op = "constructURI"
  /\ codec.m = << <<"a", "x&">>, <<"b", "1">> >>
  /\ codec.skip = {"b"}
  /\ codec.out = "a=x&"

\* the character a three-character code stands for, "" when it is not one of
\* the ten codes
DecodedChar(c) ==
  LET hits == {i \in 1..Len(decodedString) : decodedString[i][1] = c}
  IN IF hits = {} THEN "" ELSE decodedString[CHOOSE i \in hits : TRUE][2]

\* one left-to-right pass that replaces every code and copies every other
\* character
RECURSIVE SimultaneousDecode(_)
SimultaneousDecode(x) ==
  IF Len(x) = 0 THEN ""
  ELSE IF Len(x) >= 3 /\ DecodedChar(SubSeq(x, 1, 3)) # ""
       THEN DecodedChar(SubSeq(x, 1, 3)) \o SimultaneousDecode(SubSeq(x, 4, Len(x)))
       ELSE SubSeq(x, 1, 1) \o SimultaneousDecode(SubSeq(x, 2, Len(x)))

\* the loops of parseCode run over the table from its last key to its first
RECURSIVE ParseDownFrom(_, _)
ParseDownFrom(encodedCode, i) ==
  IF i < 1 THEN encodedCode
  ELSE ParseDownFrom(
         ReplaceWhile(encodedCode, decodedString[i][1], decodedString[i][2]),
         i - 1)

\* C14: parseCode(x) is x with every occurrence of the ten codes replaced in
\* one simultaneous pass: no code occurs in the result, the order of the keys
\* does not matter and every other character is kept.
C14_ParseCodeIsSimultaneous ==
  codec.op = "parseCode" =>
    /\ codec.out = SimultaneousDecode(codec.x)
    /\ \A i \in 1..Len(decodedString) : ~Includes(codec.out, decodedString[i][1])
    /\ codec.out = ParseDownFrom(codec.x, Len(decodedString))

C14_Witness ==
  /\ codec.op = "parseCode"
  /\ codec.x = "%24%26"
  /\ codec.out = "$&"

C14_WitnessUntouched ==
  /\ codec.op = "parseCode"
  /\ codec.x = "%2526"
  /\ codec.out = "%2526"

----------------------------------------------------------------------------
(* LocalStrategy *)

\* the values ctx.request.body(true).value resolves to: the submitted
\* credentials, written username:password
LocalBodies ==
  {Str(u \o ":" \o pw) : u \in {"ann", "bob", "cy", ""}, pw \in {"pw1", "pw2", ""}}
    \cup {Undefined}

\* what the injected authorize callback may do with the value it is given
AuthorizeOutcomes ==
  { [kind |-> "profile", id |-> "ann", message |-> ""],
    [kind |-> "profile", id |-> "bob", message |-> ""],
    [kind |-> "errorValue", id |-> "", message |-> "wrong password"],
    [kind |-> "throws", id |-> "", message |-> "db down"] }

\* the catch block of router with a redirect to a login page added
LocalCatch_redirect(l) ==
  [l EXCEPT !.pc = "done",
            !.redirects = Append(@, "/login"),
            !.result = [type |-> "error", userInfo |-> NoOutcome,
                        message |-> "ERROR in router: No Username or Password submitted for authorization"]]

\* the catch block of router
LocalCatch(l) ==
  [l EXCEPT !.pc = "done",
            !.result = [type |-> "error", userInfo |-> NoOutcome,
                        message |-> "ERROR in router: No Username or Password submitted for authorization"]]

\* router after the body promise settles: ok = FALSE when it rejects
LocalAfterBody(l, ok, value) ==
  IF ~ok THEN LocalCatch(l)
  ELSE [l EXCEPT !.body = value,
                 !.authorizeCalls = Append(@, value),
                 !.pc = "awaitAuthorize"]

\* router after the authorize callback settles
LocalAfterAuthorize(l, outcome) ==
  LET m == [l EXCEPT !.outcome = outcome]
  IN IF outcome.kind = "throws" THEN LocalCatch(m)
     ELSE [m EXCEPT !.pc = "done",
                    !.result = [type |-> "userInfo", userInfo |-> outcome,
                                message |-> ""]]

InitLocal ==
  /\ instances = [k \in Kinds |->
                    New(k, << <<"client_id", "cid">>, <<"client_secret", "s3cr3t">>,
                              <<"redirect_uri", "cb">>, <<"state", "st">> >>)]
  /\ flow = IdleFlow
  /\ served = 0
  /\ codec = IdleCodec
  /\ local = IdleLocal
  /\ flows = IdleFlows

\* the host passes a request to router; ctx.request.body(true) either throws
\* at once or hands out the promise router awaits
LocalRouter ==
  /\ local.pc \in {"idle", "done"}
  /\ served < MaxRequests
  /\ \E throws \in BOOLEAN :
       local' = IF throws
                THEN LocalCatch([IdleLocal EXCEPT !.bodyReads = 1])
                ELSE [IdleLocal EXCEPT !.bodyReads = 1, !.pc = "awaitBody"]
  /\ served' = served + 1
  /\ UNCHANGED <<instances, flow, codec, flows>>

\* the body promise settles
LocalBodyReturns ==
  /\ local.pc = "awaitBody"
  /\ \/ local' = LocalAfterBody(local, FALSE, Undefined)
     \/ \E value \in LocalBodies : local' = LocalAfterBody(local, TRUE, value)
  /\ UNCHANGED <<instances, flow, served, codec, flows>>

\* the authorize callback settles
LocalAuthorizeReturns ==
  /\ local.pc = "awaitAuthorize"
  /\ \E outcome \in AuthorizeOutcomes :
       local' = LocalAfterAuthorize(local, outcome)
  /\ UNCHANGED <<instances, flow, served, codec, flows>>

NextLocal == LocalRouter \/ LocalBodyReturns \/ LocalAuthorizeReturns

SpecLocal == InitLocal /\ [][NextLocal]_vars

\* C15: LocalStrategy.router makes no fetch and no redirect; it reads the
\* request body once and calls authorize at most once, exactly once when the
\* body was read.
C15_LocalMakesNoRequest ==
  /\ local.fetches = <<>>
  /\ local.redirects = <<>>
  /\ local.bodyReads <= 1
  /\ Len(local.authorizeCalls) <= 1
  /\ (local.pc = "done" /\ local.outcome.kind # "none" =>
        local.authorizeCalls = <<local.body>>)

C15_Witness ==
  /\ local.pc = "done"
  /\ local.outcome.kind = "throws"
  /\ local.authorizeCalls = <<Str("ann:pw1")>>
  /\ local.result.type = "error"

\* C16: router returns { userInfo } with the callback's value exactly when the
\* callback succeeds; when the callback throws or produces an error value the
\* returned value is that failure.
C16_LocalPropagatesFailure ==
  (local.pc = "done" /\ local.outcome.kind # "none") =>
    /\ (local.result.type = "userInfo" <=> local.outcome.kind = "profile")
    /\ (local.outcome.kind = "profile" => local.result.userInfo = local.outcome)
    /\ (local.outcome.kind # "profile" =>
          /\ local.result.type = "error"
          /\ local.result.message = local.outcome.message)

\* C17: on a non-empty query router reaches the token endpoint only if the
\* query starts with "?code=", and it does reach it for such a query that
\* reports no error.
C17_ExchangeOnlyForCodeEquals ==
  (Started /\ flow.search # "") =>
    /\ (flow.tokenRequests # <<>> => StartsWith(flow.search, "?code="))
    /\ (StartsWith(flow.search, "?code=") /\ ~Includes(flow.search, "error")
          => flow.tokenRequests # <<>>)

\* a token response getAuthToken passes on to getAuthData
Accepted(resp) ==
  resp.kind = "object" /\ Get(resp.obj, "type") # Str("oAuthException")

\* C18: one flow requests the token endpoint at most once and the profile
\* endpoint at most once, the latter only after an accepted token response;
\* AuthData is returned only after a completed profile request, and a flow
\* that failed has no request outstanding or repeated.
C18_OrderedAndBounded ==
  /\ Len(flow.tokenRequests) <= 1
  /\ Len(flow.profileRequests) <= 1
  /\ Len(flow.tokenResponses) <= Len(flow.tokenRequests)
  /\ Len(flow.profileResponses) <= Len(flow.profileRequests)
  /\ (flow.profileRequests # <<>> =>
        Len(flow.tokenResponses) = 1 /\ Accepted(flow.tokenResponses[1]))
  /\ (flow.result.type = "authData" =>
        Len(flow.profileResponses) = 1 /\ flow.profileResponses[1].kind = "object")
  /\ (Returned =>
        /\ Len(flow.tokenResponses) = Len(flow.tokenRequests)
        /\ Len(flow.profileResponses) = Len(flow.profileRequests))

C18_Witness ==
  /\ Returned
  /\ flow.result.type = "error"
  /\ Len(flow.tokenRequests) = 1
  /\ Len(flow.profileRequests) = 1
  /\ flow.profileResponses[1].kind = "netfail"

----------------------------------------------------------------------------
(* Concurrent flows *)

\* the callback queries of the concurrent flows
ConcQueries == {"?code=a1", "?code=b2&state=st"}

\* the access token a profile request carries: the Authorization header of
\* the GitHub classes, the access_token query parameter of SpotifyStrategy
SentToken(kind, req) ==
  IF kind = "spotify"
  THEN ToStr(FormParam(SubSeq(req.url, Len(authDataURL(kind)) + 1, Len(req.url)),
                       "access_token"))
  ELSE SubSeq(req.authorization, Len("token ") + 1, Len(req.authorization))

\* the providers answer each request by what it carries: the token endpoint
\* issues a token for the code it received, the profile endpoint names the
\* user of the token it received
TokenFor(kind, req) ==
  [kind |-> "object", status |-> 200,
   obj |-> [access_token |-> "tok-" \o ToStr(SentCode(kind, req)),
            token_type |-> "bearer"]]

ProfileFor(kind, req) ==
  [kind |-> "object", status |-> 200,
   obj |-> [id |-> "u-" \o SentToken(kind, req)]]

FetchFails == [kind |-> "netfail", status |-> 0, obj |-> NoObj]

InitConc ==
  /\ instances = [k \in Kinds |->
                    New(k, << <<"client_id", "cid">>, <<"client_secret", "s3cr3t">>,
                              <<"redirect_uri", "cb">>, <<"state", "st">> >>)]
  /\ flow = IdleFlow
  /\ served = 0
  /\ codec = IdleCodec
  /\ local = IdleLocal
  /\ flows = [i \in 1..MaxFlows |-> IdleFlow]

\* the host passes the request of flow i to router
ConcRouter(i) ==
  /\ flows[i].pc = "idle"
  /\ \E kind \in Kinds, search \in ConcQueries :
       flows' = [flows EXCEPT ![i] = router(kind, instances[kind], search)]
  /\ UNCHANGED <<instances, flow, served, codec, local>>

\* the token fetch of flow i settles with an answer to a request of another
\* flow, as if the request were kept in a field of the instance
ConcTokenFetchReturns_shared(i) ==
  /\ flows[i].pc = "awaitToken"
  /\ \E j \in 1..MaxFlows :
       /\ flows[j].tokenRequests # <<>>
       /\ flows' = [flows EXCEPT ![i] =
            AfterTokenFetch(flows[i],
                            TokenFor(flows[j].strategy, flows[j].tokenRequests[1]))]
  /\ UNCHANGED <<instances, flow, served, codec, local>>

\* the token fetch of flow i settles
ConcTokenFetchReturns(i) ==
  /\ flows[i].pc = "awaitToken"
  /\ \E resp \in {FetchFails, TokenFor(flows[i].strategy, flows[i].tokenRequests[1])} :
       flows' = [flows EXCEPT ![i] = AfterTokenFetch(flows[i], resp)]
  /\ UNCHANGED <<instances, flow, served, codec, local>>

\* the profile fetch of flow i settles
ConcProfileFetchReturns(i) ==
  /\ flows[i].pc = "awaitProfile"
  /\ \E resp \in {FetchFails, ProfileFor(flows[i].strategy, flows[i].profileRequests[1])} :
       flows' = [flows EXCEPT ![i] =
                   AfterProfileFetch(flows[i], instances[flows[i].strategy], resp)]
  /\ UNCHANGED <<instances, flow, served, codec, local>>

NextConc ==
  \E i \in 1..MaxFlows :
    ConcRouter(i) \/ ConcTokenFetchReturns(i) \/ ConcProfileFetchReturns(i)

SpecConc == InitConc /\ [][NextConc]_vars

\* the code of the request of flow i
OwnCode(i) == parseCode(FirstValue(flows[i].search))

\* every request and the result of flow i carry the code of its own request
\* and the token and user id issued for that code
OwnResult(i) ==
  /\ \A n \in 1..Len(flows[i].tokenRequests) :
       SentCode(flows[i].strategy, flows[i].tokenRequests[n]) = Str(OwnCode(i))
  /\ \A n \in 1..Len(flows[i].profileRequests) :
       SentToken(flows[i].strategy, flows[i].profileRequests[n]) = "tok-" \o OwnCode(i)
  /\ (flows[i].result.type = "authData" =>
        /\ flows[i].result.authData.tokenData.access_token = Str("tok-" \o OwnCode(i))
        /\ flows[i].result.authData.userInfo.providerUserId
             = Str("u-tok-" \o OwnCode(i)))

\* C19: under every interleaving of the flows at their fetches each flow's
\* requests and result come from its own code and its own responses, a step
\* of one flow changes no other flow, and no step changes the instances.
C19_NoCrossTalk ==
  /\ [](\A i \in 1..MaxFlows : OwnResult(i))
  /\ [][/\ instances' = instances
        /\ \A i, j \in 1..MaxFlows :
             (flows'[i] # flows[i] /\ flows'[j] # flows[j]) => i = j]_vars

C19_Witness ==
  /\ flows[1].strategy = flows[2].strategy
  /\ flows[1].search = "?code=a1"
  /\ flows[2].search = "?code=b2&state=st"
  /\ flows[2].pc = "awaitProfile"
  /\ flows[1].result.type = "authData"
  /\ flows[1].result.authData.tokenData.access_token = Str("tok-a1")
  /\ flows[1].result.authData.userInfo.providerUserId = Str("u-tok-a1")

\* C20: no step of a flow changes the options or the cached uriFromParams of
\* an instance, and every redirect carries the URL computed from the options
\* the constructor was given.
C20_InstancesNeverChange ==
  /\ [][instances' = instances]_vars
  /\ [](\A n \in 1..Len(flow.redirects) :
          /\ Instance.options = Instance.args
          /\ flow.redirects[n]
               = authURL(flow.strategy)
                   \o constructURI(Instance.args, AuthorizeSkip(flow.strategy)))

C20_Witness ==
  /\ served = MaxRequests
  /\ Returned
  /\ flow.strategy = "spotify"
  /\ flow.redirects
       = <<"https://accounts.spotify.com/authorize?client_id=cid&redirect_uri=cb&state=st">>

\* C21: whatever came before on the instance (nothing, a redirect, a failed
\* or a completed flow) and whatever state parameter the callback carries, a
\* "?code=..." callback that reports no error is exchanged for a token; the
\* state parameter is not compared with the configured one.
C21_CallbackExchangedWhateverHistory ==
  (Started /\ StartsWith(flow.search, "?code=") /\ ~Includes(flow.search, "error")) =>
    /\ Len(flow.tokenRequests) = 1
    /\ (Returned => flow.tokenResponses # <<>>)

C21_Witness ==
  /\ served = 1
  /\ flow.search = "?code=a1&state=zz"
  /\ OptGet(Instance.options, "state") = Str("st")
  /\ flow.result.type = "authData"
  /\ flow.result.authData.tokenData.access_token = Str("tokA")

\* C22: a request whose query is not empty and does not start with "code"
\* after the "?" is unhandled: router returns undefined at once, with no
\* redirect, no token or profile request, nothing logged, and the instance as
\* the constructor left it.
C22_OtherQueriesUnhandled ==
  (Started /\ flow.search # "" /\ ~StartsWith(flow.search, "?code")) =>
    /\ Returned
    /\ flow.result = ReturnsUndefined
    /\ flow.redirects = <<>>
    /\ flow.tokenRequests = <<>>
    /\ flow.profileRequests = <<>>
    /\ flow.console = <<>>
    /\ Instance = New(flow.strategy, Instance.args)

C22_Witness ==
  /\ Returned
  /\ flow.search = "?state=st&code=a1"
  /\ flow.result.type = "undefined"
  /\ served = MaxRequests

\* the entries of m whose key is not in skip, in order
RECURSIVE KeptEntries(_, _)
KeptEntries(m, skip) ==
  IF m = <<>> THEN <<>>
  ELSE (IF m[1][1] \in skip THEN <<>> ELSE <<m[1]>>) \o KeptEntries(Tail(m), skip)

\* a part key=value split on its first "="
SplitPair(part) ==
  LET i == IndexOf(part, "=")
  IN IF i = 0 THEN <<part, "">>
     ELSE <<SubSeq(part, 1, i - 1), SubSeq(part, i + 1, Len(part))>>

\* a query or form string read back: split on "&", each part on its first "="
ParsePairs(str) ==
  IF str = "" THEN <<>>
  ELSE LET parts == Split(str, "&")
       IN [n \in 1..Len(parts) |-> SplitPair(parts[n])]

\* C23: splitting constructURI(m, s) on "&" and each part on its first "="
\* gives back exactly the non-skipped (key, value) pairs of m in order.
C23_ConstructURIRoundTrips ==
  codec.op = "constructURI" =>
    ParsePairs(codec.out) = KeptEntries(codec.m, codec.skip)

\* C24: parseCode applied to its own result changes nothing.
C24_ParseCodeIdempotent ==
  codec.op = "parseCode" => parseCode(codec.out) = codec.out

C24_Witness ==
  /\ codec.op = "parseCode"
  /\ codec.x = "%26%24"
  /\ codec.out = "&$"
  /\ parseCode("&$") = "&$"

====
